---- MODULE Spec2Model ----
(***************************************************************************)
(* A model of the sdfu signed-distance-field algebra.                      *)
(*                                                                         *)
(* Scalars (the type parameter T, f32/f64 in the backends) are modelled as *)
(* extended rationals <<n, d>>: d > 0 is a finite value n/d in lowest      *)
(* terms, <<1,0>> and <<-1,0>> are the two infinities and <<0,0>> is NaN.  *)
(* + - * / are exact; the square root (Vec::magnitude) is rounded to the   *)
(* nearest multiple of 1/SqrtScale, the way a float square root is rounded *)
(* to the nearest representable value.                                     *)
(*                                                                         *)
(* Vectors (V) are tuples of two or three scalars.  Fields are records     *)
(* tagged with the name of the struct that implements SDF.                 *)
(***************************************************************************)
EXTENDS Integers, Sequences, FiniteSets, TLC

VARIABLES op, args, field, point, result, samples

vars == <<op, args, field, point, result, samples>>

(***************************************************************************)
(* Bounds of the model.                                                    *)
(***************************************************************************)
\* sample points and capsule endpoints lie on the integer grid -MaxCoord..MaxCoord
MaxCoord == 1

\* radii, thicknesses and smoothing factors range over 1..MaxRadius
MaxRadius == 2

\* resolution of the rounded square root
SqrtScale == 16

(***************************************************************************)
(* Scalars                                                                 *)
(***************************************************************************)
Abs(n) == IF n < 0 THEN -n ELSE n

Sign(n) == IF n < 0 THEN -1 ELSE IF n > 0 THEN 1 ELSE 0

RECURSIVE GCD(_, _)
GCD(a, b) == IF b = 0 THEN a ELSE GCD(b, a % b)

Norm(n, d) ==
    IF d = 0 THEN <<Sign(n), 0>>
    ELSE LET g == GCD(Abs(n), Abs(d))
             s == IF d < 0 THEN -1 ELSE 1
         IN  <<(s * n) \div g, (s * d) \div g>>

NaN == <<0, 0>>

PosInf == <<1, 0>>

NegInf == <<-1, 0>>

IsNaN(a) == a = NaN

IsFinite(a) == a[2] > 0

\* an integer as a scalar
I(n) == <<n, 1>>

\* the quotient n/d of two integers as a scalar
Q(n, d) == Norm(n, d)

Add(a, b) ==
    IF a[2] = 0 /\ b[2] = 0 THEN (IF a[1] = b[1] THEN a ELSE NaN)
    ELSE IF a[2] = 0 THEN a
    ELSE IF b[2] = 0 THEN b
    ELSE Norm(a[1] * b[2] + b[1] * a[2], a[2] * b[2])

Neg(a) == <<-a[1], a[2]>>

Sub(a, b) == Add(a, Neg(b))

Mul(a, b) == Norm(a[1] * b[1], a[2] * b[2])

Recip(a) == IF a[1] < 0 THEN <<-a[2], -a[1]>> ELSE <<a[2], a[1]>>

Div(a, b) == Mul(a, Recip(b))

Lt(a, b) ==
    IF IsNaN(a) \/ IsNaN(b) THEN FALSE
    ELSE IF a[2] = 0 /\ b[2] = 0 THEN a[1] < b[1]
    ELSE a[1] * b[2] < b[1] * a[2]

Le(a, b) == ~IsNaN(a) /\ ~IsNaN(b) /\ ~Lt(b, a)

ScalarAbs(a) == <<Abs(a[1]), a[2]>>

\* f32::max / f64::max: the other operand when one is NaN
MaxMin_max(a, b) ==
    IF IsNaN(a) THEN b ELSE IF IsNaN(b) THEN a ELSE IF Lt(a, b) THEN b ELSE a

\* f32::min / f64::min
MaxMin_min(a, b) ==
    IF IsNaN(a) THEN b ELSE IF IsNaN(b) THEN a ELSE IF Lt(b, a) THEN b ELSE a

Zero_zero == I(0)

One_one == I(1)

PointFive_point_five == Q(1, 2)

Lerp_lerp_Swapped(self, other, factor) ==
    Add(Mul(self, factor), Mul(other, Sub(One_one, factor)))
\* self * (1 - factor) + other * factor
Lerp_lerp(self, other, factor) ==
    Add(Mul(self, Sub(One_one, factor)), Mul(other, factor))

\* self.max(low).min(high)
Clamp_clamp(self, low, high) == MaxMin_min(MaxMin_max(self, low), high)

RECURSIVE IsqrtIter(_, _, _)
IsqrtIter(n, lo, hi) ==
    IF lo >= hi THEN lo
    ELSE LET mid == (lo + hi + 1) \div 2
         IN  IF mid * mid <= n THEN IsqrtIter(n, mid, hi)
             ELSE IsqrtIter(n, lo, mid - 1)

\* the largest integer whose square is at most n
Isqrt(n) == IsqrtIter(n, 0, IF n < 4 THEN n ELSE n \div 2)

\* the square root, rounded to the nearest multiple of 1/SqrtScale
Sqrt(a) ==
    IF IsNaN(a) \/ a[1] < 0 THEN NaN
    ELSE IF a[2] = 0 THEN PosInf
    ELSE Q((Isqrt((4 * SqrtScale * SqrtScale * a[1]) \div a[2]) + 1) \div 2,
           SqrtScale)

(***************************************************************************)
(* Vectors                                                                 *)
(***************************************************************************)
Vec2_new(x, y) == <<x, y>>

Vec3_new(x, y, z) == <<x, y, z>>

\* a vector with integer components
IV3(x, y, z) == <<I(x), I(y), I(z)>>

Vec3_zero == IV3(0, 0, 0)

Vec3_one == IV3(1, 1, 1)

VAdd(u, v) ==
    IF Len(u) = 2 THEN <<Add(u[1], v[1]), Add(u[2], v[2])>>
    ELSE <<Add(u[1], v[1]), Add(u[2], v[2]), Add(u[3], v[3])>>

VSub(u, v) ==
    IF Len(u) = 2 THEN <<Sub(u[1], v[1]), Sub(u[2], v[2])>>
    ELSE <<Sub(u[1], v[1]), Sub(u[2], v[2]), Sub(u[3], v[3])>>

VNeg(u) ==
    IF Len(u) = 2 THEN <<Neg(u[1]), Neg(u[2])>>
    ELSE <<Neg(u[1]), Neg(u[2]), Neg(u[3])>>

\* Mul<T>: a vector times a scalar
VScale(u, s) ==
    IF Len(u) = 2 THEN <<Mul(u[1], s), Mul(u[2], s)>>
    ELSE <<Mul(u[1], s), Mul(u[2], s), Mul(u[3], s)>>

\* Div<T>: a vector divided by a scalar
VDiv(u, s) ==
    IF Len(u) = 2 THEN <<Div(u[1], s), Div(u[2], s)>>
    ELSE <<Div(u[1], s), Div(u[2], s), Div(u[3], s)>>

Vec_dot(u, v) ==
    IF Len(u) = 2 THEN Add(Mul(u[1], v[1]), Mul(u[2], v[2]))
    ELSE Add(Add(Mul(u[1], v[1]), Mul(u[2], v[2])), Mul(u[3], v[3]))

Vec_magnitude(u) == Sqrt(Vec_dot(u, u))

Vec_abs(u) ==
    IF Len(u) = 2 THEN <<ScalarAbs(u[1]), ScalarAbs(u[2])>>
    ELSE <<ScalarAbs(u[1]), ScalarAbs(u[2]), ScalarAbs(u[3])>>

Vec_normalized_Unscaled(u) == u

\* v / |v|; the zero vector gives 0/0 = NaN in every component
Vec_normalized(u) == VDiv(u, Vec_magnitude(u))

\* a vector with integer components
IV2(x, y) == <<I(x), I(y)>>

Vec2_zero == IV2(0, 0)

Vec_max(u, v) ==
    IF Len(u) = 2 THEN <<MaxMin_max(u[1], v[1]), MaxMin_max(u[2], v[2])>>
    ELSE <<MaxMin_max(u[1], v[1]), MaxMin_max(u[2], v[2]), MaxMin_max(u[3], v[3])>>

Vec_min(u, v) ==
    IF Len(u) = 2 THEN <<MaxMin_min(u[1], v[1]), MaxMin_min(u[2], v[2])>>
    ELSE <<MaxMin_min(u[1], v[1]), MaxMin_min(u[2], v[2]), MaxMin_min(u[3], v[3])>>

(***************************************************************************)
(* Vector types.  A vector type V is a record of its Dimension (2 or 3)    *)
(* and of the library it comes from, which decides how Clamp is done.      *)
(***************************************************************************)
VecType(dim, lib) == [dim |-> dim, lib |-> lib]

\* nalgebra's clamp(val, min, max)
Na_clamp(val, min, max) == IF Lt(max, val) THEN max ELSE IF Lt(val, min) THEN min ELSE val

\* Clamp::clamp of one component in the vector type's library:
\* glam is self.min(high).max(low); vek and ultraviolet are clamped(low, high)
Component_clamp(lib, x, low, high) ==
    CASE lib = "glam" -> MaxMin_max(MaxMin_min(x, high), low)
      [] lib = "nalgebra" -> Na_clamp(x, low, high)
      [] OTHER -> MaxMin_min(MaxMin_max(x, low), high)

Vec_clamp(lib, u, low, high) ==
    IF Len(u) = 2
    THEN <<Component_clamp(lib, u[1], low[1], high[1]),
           Component_clamp(lib, u[2], low[2], high[2])>>
    ELSE <<Component_clamp(lib, u[1], low[1], high[1]),
           Component_clamp(lib, u[2], low[2], high[2]),
           Component_clamp(lib, u[3], low[3], high[3])>>

(***************************************************************************)
(* Rotations (the Rotation implementations of mathtypes.rs)                *)
(*                                                                         *)
(* A 3x3 matrix is a tuple of three rows; a quaternion is <<w, x, y, z>>.  *)
(***************************************************************************)
Mat3_mul_vec(m, v) == <<Vec_dot(m[1], v), Vec_dot(m[2], v), Vec_dot(m[3], v)>>

Mat3_transposed(m) ==
    << <<m[1][1], m[2][1], m[3][1]>>,
       <<m[1][2], m[2][2], m[3][2]>>,
       <<m[1][3], m[2][3], m[3][3]>> >>

\* the 2x2 minor of m that leaves out row r and column c
Mat3_minor(m, r1, r2, c1, c2) ==
    Sub(Mul(m[r1][c1], m[r2][c2]), Mul(m[r1][c2], m[r2][c1]))

\* x with the sign of position (r, c)
Mat3_signed(r, c, x) == IF (r + c) % 2 = 0 THEN x ELSE Neg(x)

Mat3_cofactor(m, r, c) ==
    Mat3_signed(r, c, Mat3_minor(m, IF r = 1 THEN 2 ELSE 1, IF r = 3 THEN 2 ELSE 3,
                                    IF c = 1 THEN 2 ELSE 1, IF c = 3 THEN 2 ELSE 3))

Mat3_determinant(m) ==
    Add(Add(Mul(m[1][1], Mat3_cofactor(m, 1, 1)), Mul(m[1][2], Mat3_cofactor(m, 1, 2))),
        Mul(m[1][3], Mat3_cofactor(m, 1, 3)))

\* the adjugate of m with every entry divided by det
Mat3_adjugate_over(m, det) ==
    [r \in 1..3 |-> [c \in 1..3 |-> Div(Mat3_cofactor(m, c, r), det)]]

\* the general inverse: the adjugate divided by the determinant
Mat3_inverted(m) == Mat3_adjugate_over(m, Mat3_determinant(m))

\* the Hamilton product of two quaternions
Quat_mul(a, b) ==
    << Sub(Sub(Sub(Mul(a[1], b[1]), Mul(a[2], b[2])), Mul(a[3], b[3])), Mul(a[4], b[4])),
       Sub(Add(Add(Mul(a[1], b[2]), Mul(a[2], b[1])), Mul(a[3], b[4])), Mul(a[4], b[3])),
       Add(Add(Sub(Mul(a[1], b[3]), Mul(a[2], b[4])), Mul(a[3], b[1])), Mul(a[4], b[2])),
       Add(Sub(Add(Mul(a[1], b[4]), Mul(a[2], b[3])), Mul(a[3], b[2])), Mul(a[4], b[1])) >>

Quat_conjugate(q) == <<q[1], Neg(q[2]), Neg(q[3]), Neg(q[4])>>

Quat_magnitude_squared(q) ==
    Add(Add(Add(Mul(q[1], q[1]), Mul(q[2], q[2])), Mul(q[3], q[3])), Mul(q[4], q[4]))

\* the conjugate divided by the squared magnitude
Quat_inverse(q) ==
    LET c == Quat_conjugate(q)
        n == Quat_magnitude_squared(q)
    IN  <<Div(c[1], n), Div(c[2], n), Div(c[3], n), Div(c[4], n)>>

Quat_vector_part(r) == <<r[2], r[3], r[4]>>

\* a unit quaternion times a vector: the vector part of q v q*
Quat_mul_vec(q, v) ==
    Quat_vector_part(Quat_mul(Quat_mul(q, <<Zero_zero, v[1], v[2], v[3]>>),
                              Quat_conjugate(q)))

\* the rotation the type natively produces: R applied to v
Rotation_native(self, v) ==
    IF self.kind \in {"vek::Mat3", "na::Rotation3"} THEN Mat3_mul_vec(self.m, v)
    ELSE Quat_mul_vec(self.q, v)

\* vek matrices:     Mat4::from(*self).inverted()
\* vek quaternions:  self.inverse()
\* ultraviolet:      self.reversed()
\* nalgebra:         the transposed matrix, the conjugate quaternion
Rotation_inverse(self) ==
    CASE self.kind = "vek::Mat3" -> [kind |-> self.kind, m |-> Mat3_inverted(self.m)]
      [] self.kind = "na::Rotation3" -> [kind |-> self.kind, m |-> Mat3_transposed(self.m)]
      [] self.kind = "vek::Quaternion" -> [kind |-> self.kind, q |-> Quat_inverse(self.q)]
      [] self.kind = "uv::Rotor3" -> [kind |-> self.kind, q |-> Quat_conjugate(self.q)]
      [] self.kind = "na::UnitQuaternion" -> [kind |-> self.kind, q |-> Quat_conjugate(self.q)]

Rotation_rotate_vec_Native(self, v) == Rotation_native(self, v)

\* vek matrices:     Mat4::from(*self).inverted() * Vec4::from(v)
\* vek quaternions:  self.inverse() * Vec4::from(v)
\* ultraviolet:      self.reversed() * v
\* nalgebra:         self.inverse_transform_vector(&v)
Rotation_rotate_vec(self, v) == Rotation_native(Rotation_inverse(self), v)

(***************************************************************************)
(* Primitives (primitives.rs)                                              *)
(***************************************************************************)
Sphere_new(radius) == [kind |-> "Sphere", radius |-> radius]

Torus_new(radius, thickness) ==
    [kind |-> "Torus", radius |-> radius, thickness |-> thickness]

Capsule_new(a, b, radius) == [kind |-> "Capsule", a |-> a, b |-> b, radius |-> radius]

Box_new(dims) == [kind |-> "Box", dims |-> dims]

CappedCylinder_new(radius, height, axis) ==
    [kind |-> "CappedCylinder", radius |-> radius, height |-> height, axis |-> axis]

\* a field supplied by the user of the library, in 2D or 3D: the signed
\* distance dot(n, p) + c to a line or plane
Affine_new(n, c) == [kind |-> "Affine", n |-> n, c |-> c]

Affine_dist(self, p) == Add(Vec_dot(self.n, p), self.c)

Box_dist_NoInterior(self, p) ==
    LET d == VSub(Vec_abs(p), self.dims)
    IN  Vec_magnitude(Vec_max(d, Vec3_zero))

\* let d = p.abs() - self.dims;
\* d.max(V::ZERO).magnitude() + d.y.max(d.z).max(d.x).min(T::ZERO)
Box_dist(self, p) ==
    LET d == VSub(Vec_abs(p), self.dims)
    IN  Add(Vec_magnitude(Vec_max(d, Vec3_zero)),
            MaxMin_min(MaxMin_max(MaxMin_max(d[2], d[3]), d[1]), Zero_zero))

\* Axis::X => (p.y, p.z, p.x), Axis::Y => (p.x, p.z, p.y), Axis::Z => (p.x, p.y, p.z)
CappedCylinder_abc(self, p) ==
    CASE self.axis = "X" -> <<p[2], p[3], p[1]>>
      [] self.axis = "Y" -> <<p[1], p[3], p[2]>>
      [] self.axis = "Z" -> <<p[1], p[2], p[3]>>

CappedCylinder_dist_AlongZ(self, p) ==
    LET d == VSub(Vec_abs(Vec2_new(Vec_magnitude(Vec2_new(p[1], p[2])), p[3])),
                  Vec2_new(self.radius, self.height))
    IN  Add(MaxMin_min(MaxMin_max(d[1], d[2]), Zero_zero),
            Vec_magnitude(Vec_max(d, Vec2_zero)))

\* let d = Vec2::new(Vec2::new(a, b).magnitude(), c).abs() - Vec2::new(self.radius, self.height);
\* d.x.max(d.y).min(T::ZERO) + d.max(V::Vec2::ZERO).magnitude()
CappedCylinder_dist(self, p) ==
    LET abc == CappedCylinder_abc(self, p)
        d == VSub(Vec_abs(Vec2_new(Vec_magnitude(Vec2_new(abc[1], abc[2])), abc[3])),
                  Vec2_new(self.radius, self.height))
    IN  Add(MaxMin_min(MaxMin_max(d[1], d[2]), Zero_zero),
            Vec_magnitude(Vec_max(d, Vec2_zero)))

Sphere_dist_NoRadius(self, p) == Vec_magnitude(p)

\* p.magnitude() - self.radius
Sphere_dist(self, p) == Sub(Vec_magnitude(p), self.radius)

\* let q = Vec2::new(Vec2::new(p.x, p.z).magnitude() - self.thickness, p.y);
\* q.magnitude() - self.radius
Torus_dist(self, p) ==
    LET q == Vec2_new(Sub(Vec_magnitude(Vec2_new(p[1], p[3])), self.thickness), p[2])
    IN  Sub(Vec_magnitude(q), self.radius)

\* let pa = p - self.a; let ba = self.b - self.a;
\* let t = pa.dot(ba) / ba.dot(ba); let h = t.clamp(T::ZERO, T::ZERO);
\* (pa - (ba * h)).magnitude() - self.radius
Capsule_dist(self, p) ==
    LET pa == VSub(p, self.a)
        ba == VSub(self.b, self.a)
        t == Div(Vec_dot(pa, ba), Vec_dot(ba, ba))
        h == Clamp_clamp(t, Zero_zero, Zero_zero)
    IN  Sub(Vec_magnitude(VSub(pa, VScale(ba, h))), self.radius)

(***************************************************************************)
(* Minimum functions (ops.rs)                                              *)
(***************************************************************************)
HardMin_default == [kind |-> "HardMin"]

PolySmoothMin_new(k) == [kind |-> "PolySmoothMin", k |-> k]

HardMin_min_Max(self, a, b) == MaxMin_max(a, b)

\* a.min(b)
HardMin_min(self, a, b) == MaxMin_min(a, b)

PolySmoothMin_min_Bulge(self, a, b) ==
    LET t == Add(PointFive_point_five,
                 Div(Mul(PointFive_point_five, Sub(b, a)), self.k))
        h == Clamp_clamp(t, Zero_zero, One_one)
    IN  Add(Lerp_lerp(b, a, h), Mul(Mul(self.k, h), Sub(One_one, h)))

\* let t = 0.5 + 0.5 * (b - a) / self.k; let h = t.clamp(0, 1);
\* b.lerp(a, h) - self.k * h * (1 - h)
PolySmoothMin_min(self, a, b) ==
    LET t == Add(PointFive_point_five,
                 Div(Mul(PointFive_point_five, Sub(b, a)), self.k))
        h == Clamp_clamp(t, Zero_zero, One_one)
    IN  Sub(Lerp_lerp(b, a, h), Mul(Mul(self.k, h), Sub(One_one, h)))

\* dispatch of the trait method MinFunction::min on the implementing struct
MinFunction_min(self, a, b) ==
    CASE self.kind = "HardMin" -> HardMin_min(self, a, b)
      [] self.kind = "PolySmoothMin" -> PolySmoothMin_min(self, a, b)

(***************************************************************************)
(* Combinators (ops.rs) and modifiers (mods.rs)                            *)
(***************************************************************************)
Union_hard(sdf1, sdf2) ==
    [kind |-> "Union", sdf1 |-> sdf1, sdf2 |-> sdf2, min_func |-> HardMin_default]

Union_smooth_Guarded(sdf1, sdf2, smoothness) ==
    [kind |-> "Union", sdf1 |-> sdf1, sdf2 |-> sdf2,
     min_func |-> IF smoothness = Zero_zero THEN HardMin_default
                  ELSE PolySmoothMin_new(smoothness)]
Union_smooth(sdf1, sdf2, smoothness) ==
    [kind |-> "Union", sdf1 |-> sdf1, sdf2 |-> sdf2,
     min_func |-> PolySmoothMin_new(smoothness)]

Subtraction_new(sdf1, sdf2) == [kind |-> "Subtraction", sdf1 |-> sdf1, sdf2 |-> sdf2]

Intersection_new(sdf1, sdf2) == [kind |-> "Intersection", sdf1 |-> sdf1, sdf2 |-> sdf2]

Round_new(sdf, radius) == [kind |-> "Round", sdf |-> sdf, radius |-> radius]

Translate_new(sdf, translation) ==
    [kind |-> "Translate", sdf |-> sdf, translation |-> translation]

Rotate_new(sdf, rotation) == [kind |-> "Rotate", sdf |-> sdf, rotation |-> rotation]

Scale_new(sdf, scaling) == [kind |-> "Scale", sdf |-> sdf, scaling |-> scaling]

\* V stands for the type parameter D = <V as Vec<T>>::Dimension and for the
\* vector type the field is sampled with
Elongate_new(sdf, axis, elongation, V) ==
    [kind |-> "Elongate", sdf |-> sdf, axis |-> axis, elongation |-> elongation, V |-> V]

\* the value of a call that panicked instead of returning
Panic == <<0, -1>>

ElongateMulti_new_Halved(sdf, elongation, V) ==
    [kind |-> "ElongateMulti", sdf |-> sdf,
     elongation |-> [k \in 1..Len(elongation) |-> Mul(PointFive_point_five, elongation[k])],
     V |-> V]
ElongateMulti_new(sdf, elongation, V) ==
    [kind |-> "ElongateMulti", sdf |-> sdf, elongation |-> elongation, V |-> V]
RECURSIVE SDF_dist(_, _)

Union_dist_Mirrored(self, p) ==
    MinFunction_min(self.min_func, SDF_dist(self.sdf1, p), SDF_dist(self.sdf2, VNeg(p)))

\* self.min_func.min(self.sdf1.dist(p), self.sdf2.dist(p))
Union_dist(self, p) ==
    MinFunction_min(self.min_func, SDF_dist(self.sdf1, p), SDF_dist(self.sdf2, p))

Subtraction_dist_Reversed(self, p) ==
    MaxMin_max(Neg(SDF_dist(self.sdf2, p)), SDF_dist(self.sdf1, p))

\* (-self.sdf1.dist(p)).max(self.sdf2.dist(p))
Subtraction_dist(self, p) ==
    MaxMin_max(Neg(SDF_dist(self.sdf1, p)), SDF_dist(self.sdf2, p))

Intersection_dist_Min(self, p) ==
    MaxMin_min(SDF_dist(self.sdf1, p), SDF_dist(self.sdf2, p))

\* self.sdf1.dist(p).max(self.sdf2.dist(p))
Intersection_dist(self, p) ==
    MaxMin_max(SDF_dist(self.sdf1, p), SDF_dist(self.sdf2, p))

Round_dist_Grow(self, p) == Add(SDF_dist(self.sdf, p), self.radius)

\* self.sdf.dist(p) - self.radius
Round_dist(self, p) == Sub(SDF_dist(self.sdf, p), self.radius)

Translate_dist_Forward(self, p) == SDF_dist(self.sdf, VAdd(p, self.translation))

\* self.sdf.dist(p - self.translation)
Translate_dist(self, p) == SDF_dist(self.sdf, VSub(p, self.translation))

\* self.sdf.dist(self.rotation.rotate_vec(p))
Rotate_dist(self, p) == SDF_dist(self.sdf, Rotation_rotate_vec(self.rotation, p))

Scale_dist_Unscaled(self, p) == SDF_dist(self.sdf, VDiv(p, self.scaling))

\* self.sdf.dist(p / self.scaling) * self.scaling
Scale_dist(self, p) == Mul(SDF_dist(self.sdf, VDiv(p, self.scaling)), self.scaling)

Elongate_Dim3D_q_Unmoved(self, p) == p

\* Dim3D: let h = match self.axis { X => (e, 0, 0), Y => (0, e, 0), Z => (0, 0, e) };
\*        p - p.clamp(-h, h)
Elongate_Dim3D_q(self, p) ==
    LET h == CASE self.axis = "X" -> Vec3_new(self.elongation, Zero_zero, Zero_zero)
               [] self.axis = "Y" -> Vec3_new(Zero_zero, self.elongation, Zero_zero)
               [] self.axis = "Z" -> Vec3_new(Zero_zero, Zero_zero, self.elongation)
    IN  VSub(p, Vec_clamp(self.V.lib, p, VNeg(h), h))

\* self.sdf.dist(q)
Elongate_Dim3D_dist(self, p) == SDF_dist(self.sdf, Elongate_Dim3D_q(self, p))

\* Dim2D: let h = match self.axis { X => (e, 0), Y => (0, e), Z => panic!(..) };
\*        p - p.clamp(-h, h)
Elongate_Dim2D_q(self, p) ==
    LET h == CASE self.axis = "X" -> Vec2_new(self.elongation, Zero_zero)
               [] self.axis = "Y" -> Vec2_new(Zero_zero, self.elongation)
    IN  VSub(p, Vec_clamp(self.V.lib, p, VNeg(h), h))

Elongate_Dim2D_dist_ZIgnored(self, p) ==
    IF self.axis = "Z" THEN SDF_dist(self.sdf, p)
    ELSE SDF_dist(self.sdf, Elongate_Dim2D_q(self, p))

\* the match panics on Axis::Z before anything is sampled; self.sdf.dist(q)
Elongate_Dim2D_dist(self, p) ==
    IF self.axis = "Z" THEN Panic
    ELSE SDF_dist(self.sdf, Elongate_Dim2D_q(self, p))

\* the impl for the dimension of the vector type
Elongate_dist(self, p) ==
    IF self.V.dim = 3 THEN Elongate_Dim3D_dist(self, p) ELSE Elongate_Dim2D_dist(self, p)

\* the points the inner field is sampled at by Elongate::dist
Elongate_samples(self, p) ==
    IF self.V.dim = 3 THEN <<Elongate_Dim3D_q(self, p)>>
    ELSE IF self.axis = "Z" THEN <<>>
    ELSE <<Elongate_Dim2D_q(self, p)>>

ElongateMulti_Dim3D_dist_NoAbs(self, p) ==
    LET q == VSub(p, self.elongation)
        t == MaxMin_min(MaxMin_max(MaxMin_max(q[2], q[3]), q[1]), Zero_zero)
    IN  Add(SDF_dist(self.sdf, Vec_max(q, Vec3_zero)), t)

\* let q = p.abs() - self.elongation;
\* let t = q.y().max(q.z()).max(q.x()).min(T::zero());
\* self.sdf.dist(q.max(V::zero())) + t
ElongateMulti_Dim3D_dist(self, p) ==
    LET q == VSub(Vec_abs(p), self.elongation)
        t == MaxMin_min(MaxMin_max(MaxMin_max(q[2], q[3]), q[1]), Zero_zero)
    IN  Add(SDF_dist(self.sdf, Vec_max(q, Vec3_zero)), t)

ElongateMulti_Dim2D_dist_NoAbs(self, p) ==
    LET q == VSub(p, self.elongation)
        t == MaxMin_min(MaxMin_max(q[1], q[2]), Zero_zero)
    IN  Add(SDF_dist(self.sdf, Vec_max(q, Vec2_zero)), t)

\* let q = p.abs() - self.elongation;
\* let t = q.x().max(q.y()).min(T::zero());
\* self.sdf.dist(q.max(V::zero())) + t
ElongateMulti_Dim2D_dist(self, p) ==
    LET q == VSub(Vec_abs(p), self.elongation)
        t == MaxMin_min(MaxMin_max(q[1], q[2]), Zero_zero)
    IN  Add(SDF_dist(self.sdf, Vec_max(q, Vec2_zero)), t)

\* the impl for the dimension of the vector type
ElongateMulti_dist(self, p) ==
    IF self.V.dim = 3 THEN ElongateMulti_Dim3D_dist(self, p)
    ELSE ElongateMulti_Dim2D_dist(self, p)

\* dispatch of the trait method SDF::dist on the implementing struct
SDF_dist(self, p) ==
    CASE self.kind = "Sphere" -> Sphere_dist(self, p)
      [] self.kind = "Torus" -> Torus_dist(self, p)
      [] self.kind = "Capsule" -> Capsule_dist(self, p)
      [] self.kind = "Union" -> Union_dist(self, p)
      [] self.kind = "Subtraction" -> Subtraction_dist(self, p)
      [] self.kind = "Intersection" -> Intersection_dist(self, p)
      [] self.kind = "Round" -> Round_dist(self, p)
      [] self.kind = "Translate" -> Translate_dist(self, p)
      [] self.kind = "Rotate" -> Rotate_dist(self, p)
      [] self.kind = "Scale" -> Scale_dist(self, p)
      [] self.kind = "Affine" -> Affine_dist(self, p)
      [] self.kind = "Elongate" -> Elongate_dist(self, p)
      [] self.kind = "Box" -> Box_dist(self, p)
      [] self.kind = "CappedCylinder" -> CappedCylinder_dist(self, p)
      [] self.kind = "ElongateMulti" -> ElongateMulti_dist(self, p)

(***************************************************************************)
(* Builder methods of the SDF trait (lib.rs)                               *)
(***************************************************************************)
SDF_union(self, other) == Union_hard(self, other)

SDF_union_smooth(self, other, softness) == Union_smooth(self, other, softness)

SDF_subtract_Unswapped(self, other) == Subtraction_new(self, other)

SDF_subtract(self, other) == Subtraction_new(other, self)

SDF_intersection(self, other) == Intersection_new(self, other)

SDF_round(self, radius) == Round_new(self, radius)

SDF_translate(self, translation) == Translate_new(self, translation)

SDF_rotate(self, rotation) == Rotate_new(self, rotation)

SDF_scale(self, scaling) == Scale_new(self, scaling)

SDF_elongate(self, axis, elongation, V) == Elongate_new(self, axis, elongation, V)

SDF_elongate_multi_axis(self, elongation, V) == ElongateMulti_new(self, elongation, V)

(***************************************************************************)
(* Normal estimation (util.rs)                                             *)
(***************************************************************************)
TetrahedralEstimator_new(eps) == [kind |-> "TetrahedralEstimator", eps |-> eps]

\* the four terms of the sum: the direction that weights each sample and
\* the point the sample is taken at
TetrahedralEstimator_terms(self, p) ==
    LET xyy == Vec3_new(One_one, Neg(One_one), Neg(One_one))
        yyx == Vec3_new(Neg(One_one), Neg(One_one), One_one)
        yxy == Vec3_new(Neg(One_one), One_one, Neg(One_one))
        xxx == Vec3_one
    IN  << [weight |-> xyy, at |-> VAdd(p, VScale(xyy, self.eps))],
           [weight |-> yyx, at |-> VAdd(p, VScale(xyy, self.eps))],
           [weight |-> yxy, at |-> VAdd(p, VScale(xyy, self.eps))],
           [weight |-> xxx, at |-> VAdd(p, VScale(xxx, self.eps))] >>

\* each direction times the distance sampled for it
TetrahedralEstimator_weighted(sdf, terms) ==
    [i \in 1..Len(terms) |-> VScale(terms[i].weight, SDF_dist(sdf, terms[i].at))]

TetrahedralEstimator_sum(term) == VAdd(VAdd(VAdd(term[1], term[2]), term[3]), term[4])

\* (xyy * sdf.dist(..) + yyx * sdf.dist(..) + yxy * sdf.dist(..)
\*     + xxx * sdf.dist(..)).normalized()
TetrahedralEstimator_estimate_normal(self, sdf, p) ==
    Vec_normalized(TetrahedralEstimator_sum(
        TetrahedralEstimator_weighted(sdf, TetrahedralEstimator_terms(self, p))))

\* the estimator of the dimension of the vector type V
CentralDifferenceEstimator_new(eps, V) ==
    [kind |-> "CentralDifferenceEstimator", eps |-> eps, V |-> V]

\* one entry per axis: the two points the field is sampled at
CentralDifferenceEstimator_Dim3D_samples_Forward(self, p) ==
    LET eps == self.eps
    IN  << [plus |-> Vec3_new(Add(p[1], eps), p[2], p[3]), minus |-> p],
           [plus |-> Vec3_new(p[1], Add(p[2], eps), p[3]), minus |-> p],
           [plus |-> Vec3_new(p[1], p[2], Add(p[3], eps)), minus |-> p] >>

\* V::new(p.x() + eps, p.y(), p.z()) and V::new(p.x() - eps, p.y(), p.z()), ...
CentralDifferenceEstimator_Dim3D_samples(self, p) ==
    LET eps == self.eps
    IN  << [plus |-> Vec3_new(Add(p[1], eps), p[2], p[3]),
            minus |-> Vec3_new(Sub(p[1], eps), p[2], p[3])],
           [plus |-> Vec3_new(p[1], Add(p[2], eps), p[3]),
            minus |-> Vec3_new(p[1], Sub(p[2], eps), p[3])],
           [plus |-> Vec3_new(p[1], p[2], Add(p[3], eps)),
            minus |-> Vec3_new(p[1], p[2], Sub(p[3], eps))] >>

\* V::new(p.x() + eps, p.y()) and V::new(p.x() - eps, p.y()), ...
CentralDifferenceEstimator_Dim2D_samples(self, p) ==
    LET eps == self.eps
    IN  << [plus |-> Vec2_new(Add(p[1], eps), p[2]), minus |-> Vec2_new(Sub(p[1], eps), p[2])],
           [plus |-> Vec2_new(p[1], Add(p[2], eps)), minus |-> Vec2_new(p[1], Sub(p[2], eps))] >>

CentralDifferenceEstimator_samples(self, p) ==
    IF self.V.dim = 3 THEN CentralDifferenceEstimator_Dim3D_samples(self, p)
    ELSE CentralDifferenceEstimator_Dim2D_samples(self, p)

\* per axis: sdf.dist(.. + eps ..) - sdf.dist(.. - eps ..)
CentralDifferenceEstimator_differences(sdf, at) ==
    [i \in 1..Len(at) |-> Sub(SDF_dist(sdf, at[i].plus), SDF_dist(sdf, at[i].minus))]

\* V::new(.., .., ..) for Dim3D, V::new(.., ..) for Dim2D
CentralDifferenceEstimator_vector(diff) ==
    IF Len(diff) = 3 THEN Vec3_new(diff[1], diff[2], diff[3]) ELSE Vec2_new(diff[1], diff[2])

\* V::new(sdf.dist(..) - sdf.dist(..), ..).normalized(), in the impl for the
\* dimension of the vector type
CentralDifferenceEstimator_estimate_normal(self, sdf, p) ==
    Vec_normalized(CentralDifferenceEstimator_vector(
        CentralDifferenceEstimator_differences(sdf, CentralDifferenceEstimator_samples(self, p))))

\* dispatch of the trait method NormalEstimator::estimate_normal
NormalEstimator_estimate_normal(self, sdf, p) ==
    CASE self.kind = "TetrahedralEstimator" -> TetrahedralEstimator_estimate_normal(self, sdf, p)
      [] self.kind = "CentralDifferenceEstimator" ->
             CentralDifferenceEstimator_estimate_normal(self, sdf, p)

EstimateNormal_new(sdf, estimator) ==
    [kind |-> "EstimateNormal", sdf |-> sdf, estimator |-> estimator]

\* self.estimator.estimate_normal(self.sdf, p)
EstimateNormal_normal_at(self, p) ==
    NormalEstimator_estimate_normal(self.estimator, self.sdf, p)

\* impl Default for CentralDifferenceEstimator<f32x4, ..>: Self::new(f32x4::from(0.000))
\* impl Default for CentralDifferenceEstimator<f32, ..>:   Self::new(0.001)
\* impl Default for CentralDifferenceEstimator<f64, ..>:   Self::new(0.001)
CentralDifferenceEstimator_default(T, V) ==
    CentralDifferenceEstimator_new(IF T = "f32x4" THEN Q(0, 1000) ELSE Q(1, 1000), V)

\* impl Default for TetrahedralEstimator<f32x4 | f32 | f64, V>: Self::new(0.001)
TetrahedralEstimator_default(T) == TetrahedralEstimator_new(Q(1, 1000))

\* E::default() for the estimator type E
Default_default(E, T, V) ==
    IF E = "CentralDifferenceEstimator" THEN CentralDifferenceEstimator_default(T, V)
    ELSE TetrahedralEstimator_default(T)

\* EstimateNormal { sdf, estimator: E::default(), .. }
EstimateNormal_new_default(sdf, E, T, V) == EstimateNormal_new(sdf, Default_default(E, T, V))

SDF_normals(self, eps, V) == EstimateNormal_new(self, CentralDifferenceEstimator_new(eps, V))

SDF_normals_fast(self, eps) == EstimateNormal_new(self, TetrahedralEstimator_new(eps))

(***************************************************************************)
(* Inputs                                                                  *)
(***************************************************************************)
Coord == (-MaxCoord)..MaxCoord

Points3 == {IV3(x, y, z) : x \in Coord, y \in Coord, z \in Coord}

Origin3 == Vec3_zero

Half == Q(1, 2)

Radii == {I(r) : r \in 1..MaxRadius} \cup {Half}

\* the values a minimum function is applied to: multiples of 1/2
Values == {Q(n, 2) : n \in (-2 * MaxRadius)..(2 * MaxRadius)}

Epsilons == {Half, Q(1, 4), I(1)}

CapsuleEnds == {IV3(0, 0, 0), IV3(1, 0, 0), IV3(-1, 1, 0), IV3(-1, -1, 1), IV3(0, 0, -1)}

\* translation offsets
Offsets == {IV3(1, 0, 0), IV3(0, -1, 1), IV3(-1, 1, 1), <<Half, I(0), I(-1)>>}

\* a matrix with integer entries, row by row
IM3(a, b, c, d, e, f, g, h, i) == <<IV3(a, b, c), IV3(d, e, f), IV3(g, h, i)>>

\* a quarter turn about z, a third of a turn about (1,1,1), a half turn about x
RotationMatrices ==
    {IM3(0, -1, 0, 1, 0, 0, 0, 0, 1), IM3(0, 0, 1, 1, 0, 0, 0, 1, 0),
     IM3(1, 0, 0, 0, -1, 0, 0, 0, -1)}

\* unit quaternions with rational components: thirds of a turn about
\* (1,1,1) and (-1,1,1), a half turn about x
RotationQuaternions ==
    {<<Half, Half, Half, Half>>, <<Half, Neg(Half), Half, Half>>, <<I(0), I(1), I(0), I(0)>>}

Rotations ==
    {[kind |-> k, m |-> m] : k \in {"vek::Mat3", "na::Rotation3"}, m \in RotationMatrices}
        \cup {[kind |-> k, q |-> q] :
                 k \in {"vek::Quaternion", "uv::Rotor3", "na::UnitQuaternion"},
                 q \in RotationQuaternions}

\* non-zero uniform scale factors
Scalings == {I(1), I(2), Half, I(-1), Q(3, 2)}

Points2 == {IV2(x, y) : x \in Coord, y \in Coord}

Axes == {"X", "Y", "Z"}

VecLibs == {"vek", "nalgebra", "glam"}

VecTypes == {VecType(dim, lib) : dim \in {2, 3}, lib \in VecLibs}

\* elongation amounts; the negative one is outside what the builders are meant for
Amounts == {I(0), Half, I(1), I(2), I(-1)}

PointsOf(V) == IF V.dim = 2 THEN Points2 ELSE Points3

\* the fields of each dimension that the dimension-generic modifiers wrap
FieldsOf(V) ==
    IF V.dim = 2 THEN {Affine_new(IV2(1, 0), I(0)), Affine_new(<<Half, I(-1)>>, Half)}
    ELSE {Affine_new(<<Half, I(-1), I(1)>>, Half),
          Capsule_new(IV3(-1, 1, 0), IV3(1, 0, 1), I(1)),
          Torus_new(I(2), Half)}

\* per-axis elongation amounts and box half-extents
Extents3 == {IV3(1, 1, 1), IV3(0, 0, 0), <<Half, I(1), I(2)>>, <<I(1), I(0), Half>>}

Extents2 == {IV2(1, 1), IV2(0, 0), <<Half, I(1)>>, <<I(2), Half>>}

ExtentsOf(V) == IF V.dim = 2 THEN Extents2 ELSE Extents3

\* half-extents of boxes; the constructor does not check their sign
BoxDims == Extents3 \cup {<<I(-1), I(1), Half>>}

\* half-heights of capped cylinders
Heights == {Half, I(1), I(2)}

Leaves ==
    {Sphere_new(I(r)) : r \in 1..MaxRadius}
        \cup {Torus_new(I(2), Half), Torus_new(I(1), I(2))}
        \cup {Capsule_new(IV3(0, 0, 0), IV3(1, 0, 0), Half),
              Capsule_new(IV3(-1, 1, 0), IV3(1, 0, 1), I(1))}

\* the fields the combinators and modifiers are applied to
Fields ==
    Leaves
        \cup {Round_new(Sphere_new(I(1)), Half),
              Subtraction_new(Sphere_new(I(1)), Torus_new(I(1), I(2))),
              Union_hard(Capsule_new(IV3(0, 0, 0), IV3(1, 0, 0), Half), Sphere_new(I(1)))}

(***************************************************************************)
(* The library is a set of pure functions over immutable values.  A state  *)
(* of the model is one call in progress: the inputs it was made with, the  *)
(* field it built and the value it returned.  A call is made when no call  *)
(* is in progress; Return hands the value to the caller.                   *)
(***************************************************************************)
Init ==
    /\ op = "idle"
    /\ args = <<>>
    /\ field = <<>>
    /\ point = <<>>
    /\ result = NaN
    /\ samples = <<>>

\* Sphere::new(radius).dist(p)
CallSphereDist ==
    /\ op = "idle"
    /\ \E radius \in Radii, p \in Points3 :
        /\ op' = "Sphere::dist"
        /\ args' = [radius |-> radius]
        /\ field' = Sphere_new(radius)
        /\ point' = p
        /\ result' = SDF_dist(field', p)
        /\ samples' = <<>>

\* Torus::new(radius, thickness).dist(p)
CallTorusDist ==
    /\ op = "idle"
    /\ \E radius \in Radii, thickness \in Radii, p \in Points3 :
        /\ op' = "Torus::dist"
        /\ args' = [radius |-> radius, thickness |-> thickness]
        /\ field' = Torus_new(radius, thickness)
        /\ point' = p
        /\ result' = SDF_dist(field', p)
        /\ samples' = <<>>

\* Capsule::new(a, b, radius).dist(p)
CallCapsuleDist ==
    /\ op = "idle"
    /\ \E a \in CapsuleEnds, b \in CapsuleEnds, radius \in Radii, p \in Points3 :
        /\ op' = "Capsule::dist"
        /\ args' = [a |-> a, b |-> b, radius |-> radius]
        /\ field' = Capsule_new(a, b, radius)
        /\ point' = p
        /\ result' = SDF_dist(field', p)
        /\ samples' = <<>>

\* a.union(b).dist(p)
CallUnion ==
    /\ op = "idle"
    /\ \E a \in Fields, b \in Fields, p \in Points3 :
        /\ op' = "SDF::union"
        /\ args' = [self |-> a, other |-> b]
        /\ field' = SDF_union(a, b)
        /\ point' = p
        /\ result' = SDF_dist(field', p)
        /\ samples' = <<>>

\* a.union_smooth(b, k).dist(p)
CallUnionSmooth ==
    /\ op = "idle"
    /\ \E a \in Leaves, b \in Leaves, k \in Radii, p \in Points3 :
        /\ op' = "SDF::union_smooth"
        /\ args' = [self |-> a, other |-> b, k |-> k]
        /\ field' = SDF_union_smooth(a, b, k)
        /\ point' = p
        /\ result' = SDF_dist(field', p)
        /\ samples' = <<>>

\* PolySmoothMin::new(k).min(a, b)
CallPolySmoothMin ==
    /\ op = "idle"
    /\ \E a \in Values, b \in Values, k \in Radii :
        /\ op' = "PolySmoothMin::min"
        /\ args' = [a |-> a, b |-> b, k |-> k]
        /\ field' = PolySmoothMin_new(k)
        /\ point' = <<>>
        /\ result' = MinFunction_min(field', a, b)
        /\ samples' = <<>>

\* a.intersection(b).dist(p), which is Intersection::new(a, b).dist(p)
CallIntersection ==
    /\ op = "idle"
    /\ \E a \in Fields, b \in Fields, p \in Points3 :
        /\ op' = "SDF::intersection"
        /\ args' = [self |-> a, other |-> b]
        /\ field' = SDF_intersection(a, b)
        /\ point' = p
        /\ result' = SDF_dist(field', p)
        /\ samples' = <<>>

\* a.subtract(b).dist(p)
CallSubtract ==
    /\ op = "idle"
    /\ \E a \in Fields, b \in Fields, p \in Points3 :
        /\ op' = "SDF::subtract"
        /\ args' = [self |-> a, other |-> b]
        /\ field' = SDF_subtract(a, b)
        /\ point' = p
        /\ result' = SDF_dist(field', p)
        /\ samples' = <<>>

\* Subtraction::new(sdf1, sdf2).dist(p)
CallSubtractionNew ==
    /\ op = "idle"
    /\ \E sdf1 \in Fields, sdf2 \in Fields, p \in Points3 :
        /\ op' = "Subtraction::new"
        /\ args' = [sdf1 |-> sdf1, sdf2 |-> sdf2]
        /\ field' = Subtraction_new(sdf1, sdf2)
        /\ point' = p
        /\ result' = SDF_dist(field', p)
        /\ samples' = <<>>

\* Round::new(f, radius).dist(p)
CallRound ==
    /\ op = "idle"
    /\ \E f \in Fields, radius \in Radii, p \in Points3 :
        /\ op' = "Round::dist"
        /\ args' = [sdf |-> f, radius |-> radius]
        /\ field' = Round_new(f, radius)
        /\ point' = p
        /\ result' = SDF_dist(field', p)
        /\ samples' = <<>>

\* f.normals_fast(eps).normal_at(p)
\* fields f(p) = dot(n, p) + c
AffineFields3 == {Affine_new(<<Half, I(-1), I(1)>>, Half), Affine_new(IV3(1, 0, 0), I(0))}
CallNormalsFast ==
    /\ op = "idle"
    /\ \E f \in Leaves \cup AffineFields3, eps \in Epsilons, p \in Points3 :
        /\ op' = "TetrahedralEstimator::estimate_normal"
        /\ args' = [sdf |-> f, eps |-> eps]
        /\ field' = SDF_normals_fast(f, eps)
        /\ point' = p
        /\ result' = EstimateNormal_normal_at(field', p)
        /\ samples' = TetrahedralEstimator_terms(field'.estimator, p)

\* f.normals(eps).normal_at(p), for a 2D or a 3D vector type V
CallNormals ==
    /\ op = "idle"
    /\ \E V \in VecTypes :
         \E f \in FieldsOf(V) \cup (IF V.dim = 3 THEN Leaves ELSE {}),
            eps \in Epsilons, p \in PointsOf(V) :
            /\ op' = "CentralDifferenceEstimator::estimate_normal"
            /\ args' = [sdf |-> f, eps |-> eps, V |-> V]
            /\ field' = SDF_normals(f, eps, V)
            /\ point' = p
            /\ result' = EstimateNormal_normal_at(field', p)
            /\ samples' = CentralDifferenceEstimator_samples(field'.estimator, p)

\* f.translate(t).dist(p)
CallTranslate ==
    /\ op = "idle"
    /\ \E f \in Leaves, t \in Offsets, p \in Points3 :
        /\ op' = "Translate::dist"
        /\ args' = [sdf |-> f, translation |-> t]
        /\ field' = SDF_translate(f, t)
        /\ point' = p
        /\ result' = SDF_dist(field', p)
        /\ samples' = <<>>

\* f.rotate(rotation).dist(p)
CallRotate ==
    /\ op = "idle"
    /\ \E f \in Leaves, rotation \in Rotations, p \in Points3 :
        /\ op' = "Rotate::dist"
        /\ args' = [sdf |-> f, rotation |-> rotation]
        /\ field' = SDF_rotate(f, rotation)
        /\ point' = p
        /\ result' = SDF_dist(field', p)
        /\ samples' = <<>>

\* f.scale(s).dist(p)
CallScale ==
    /\ op = "idle"
    /\ \E f \in Leaves, s \in Scalings, p \in Points3 :
        /\ op' = "Scale::dist"
        /\ args' = [sdf |-> f, scaling |-> s]
        /\ field' = SDF_scale(f, s)
        /\ point' = p
        /\ result' = SDF_dist(field', p)
        /\ samples' = <<>>

\* f.elongate(axis, amount).dist(p), for a 2D or a 3D vector type V
\* fields with f.dist(p) == f.dist(abs(p)); in 2D, where the library has no
\* primitive, a field made symmetric by a multi-axis elongation by zero
SymmetricFieldsOf(V) ==
    IF V.dim = 2
    THEN {ElongateMulti_new(Affine_new(<<Half, I(-1)>>, Half), Vec2_zero, V)}
    ELSE {Box_new(<<Half, I(1), I(2)>>)}
CallElongate ==
    /\ op = "idle"
    /\ \E V \in VecTypes, axis \in Axes, amount \in Amounts :
         \E f \in FieldsOf(V) \cup SymmetricFieldsOf(V), p \in PointsOf(V) :
            /\ op' = "Elongate::dist"
            /\ args' = [sdf |-> f, axis |-> axis, elongation |-> amount, V |-> V]
            /\ field' = SDF_elongate(f, axis, amount, V)
            /\ point' = p
            /\ result' = SDF_dist(field', p)
            /\ samples' = Elongate_samples(field', p)

\* f.elongate_multi_axis(amounts).dist(p), for a 2D or a 3D vector type V
CallElongateMulti ==
    /\ op = "idle"
    /\ \E V \in VecTypes :
         \E f \in FieldsOf(V) \cup (IF V.dim = 3 THEN {Sphere_new(r) : r \in Radii} ELSE {}),
            amounts \in ExtentsOf(V), p \in PointsOf(V) :
            /\ op' = "ElongateMulti::dist"
            /\ args' = [sdf |-> f, elongation |-> amounts, V |-> V]
            /\ field' = SDF_elongate_multi_axis(f, amounts, V)
            /\ point' = p
            /\ result' = SDF_dist(field', p)
            /\ samples' = <<>>

\* Box::new(dims).dist(p)
CallBoxDist ==
    /\ op = "idle"
    /\ \E dims \in BoxDims, p \in Points3 :
        /\ op' = "Box::dist"
        /\ args' = [dims |-> dims]
        /\ field' = Box_new(dims)
        /\ point' = p
        /\ result' = SDF_dist(field', p)
        /\ samples' = <<>>

\* CappedCylinder::new(radius, height, axis).dist(p)
CallCappedCylinderDist ==
    /\ op = "idle"
    /\ \E radius \in Radii, height \in Heights, axis \in Axes, p \in Points3 :
        /\ op' = "CappedCylinder::dist"
        /\ args' = [radius |-> radius, height |-> height, axis |-> axis]
        /\ field' = CappedCylinder_new(radius, height, axis)
        /\ point' = p
        /\ result' = SDF_dist(field', p)
        /\ samples' = <<>>

\* the caller takes the value; the library keeps nothing of the call
\* the scalar types with a Default estimator; f32x4 is four f32 lanes
ScalarTypes == {"f32", "f64", "f32x4"}

EstimatorTypes == {"CentralDifferenceEstimator", "TetrahedralEstimator"}

\* affine fields steep enough for the default eps to show at the model's
\* precision
SteepFieldsOf(V) ==
    IF V.dim = 2 THEN {Affine_new(IV2(500, 250), I(0))}
    ELSE {Affine_new(IV3(500, 250, 250), I(0))}

\* EstimateNormal::new_default(f).normal_at(p) with estimator type E over
\* the scalar type T; TetrahedralEstimator needs a 3D vector type
CallNewDefault ==
    /\ op = "idle"
    /\ \E E \in EstimatorTypes, T \in ScalarTypes, V \in VecTypes :
         \E f \in SteepFieldsOf(V), p \in PointsOf(V) :
            /\ E = "TetrahedralEstimator" => V.dim = 3
            /\ op' = "EstimateNormal::new_default"
            /\ args' = [sdf |-> f, E |-> E, T |-> T, V |-> V]
            /\ field' = EstimateNormal_new_default(f, E, T, V)
            /\ point' = p
            /\ result' = EstimateNormal_normal_at(field', p)
            /\ samples' = IF E = "TetrahedralEstimator"
                          THEN TetrahedralEstimator_terms(field'.estimator, p)
                          ELSE CentralDifferenceEstimator_samples(field'.estimator, p)
\* parameters a validating constructor would refuse
Degenerate == {I(0), I(-1), Half}

NewSubFields == {Sphere_new(I(1)), Torus_new(I(2), Half)}

\* a constructor or builder call by itself: the value it returns is the field
CallNew ==
    /\ op = "idle"
    /\ point' = <<>>
    /\ result' = NaN
    /\ samples' = <<>>
    /\ \/ \E a \in NewSubFields, b \in NewSubFields, k \in Degenerate :
            /\ op' = "Union::smooth"
            /\ args' = [sdf1 |-> a, sdf2 |-> b, smoothness |-> k, V |-> VecType(3, "vek")]
            /\ field' = SDF_union_smooth(a, b, k)
       \/ \E a \in CapsuleEnds, b \in CapsuleEnds, r \in Degenerate :
            /\ op' = "Capsule::new"
            /\ args' = [a |-> a, b |-> b, radius |-> r, V |-> VecType(3, "vek")]
            /\ field' = Capsule_new(a, b, r)
       \/ \E f \in NewSubFields, s \in Degenerate :
            /\ op' = "Scale::new"
            /\ args' = [sdf |-> f, scaling |-> s, V |-> VecType(3, "vek")]
            /\ field' = SDF_scale(f, s)
       \/ \E V \in VecTypes, axis \in Axes, amount \in Degenerate :
           \E f \in FieldsOf(V) :
            /\ op' = "Elongate::new"
            /\ args' = [sdf |-> f, axis |-> axis, elongation |-> amount, V |-> V]
            /\ field' = SDF_elongate(f, axis, amount, V)
Return ==
    /\ op # "idle"
    /\ op' = "idle"
    /\ args' = <<>>
    /\ field' = <<>>
    /\ point' = <<>>
    /\ result' = NaN
    /\ samples' = <<>>

Next ==
    \/ CallSphereDist
    \/ CallTorusDist
    \/ CallCapsuleDist
    \/ CallUnion
    \/ CallUnionSmooth
    \/ CallPolySmoothMin
    \/ CallIntersection
    \/ CallSubtract
    \/ CallSubtractionNew
    \/ CallRound
    \/ CallNormalsFast
    \/ CallTranslate
    \/ CallRotate
    \/ CallScale
    \/ CallElongate
    \/ CallElongateMulti
    \/ CallBoxDist
    \/ CallCappedCylinderDist
    \/ CallNormals
    \/ CallNew
    \/ CallNewDefault
    \/ Return

Spec == Init /\ [][Next]_vars

(***************************************************************************)
(* Concurrent callers.  dist takes &self and estimate_normal takes its     *)
(* field by value (SDF: Copy), so any number of threads may call into one  *)
(* field tree with no locking.  In this specification `field` is the tree  *)
(* the threads share and every other variable is a function of the thread: *)
(* op[t] is where thread t is in its call, args[t] the call it makes,      *)
(* point[t] its point, samples[t] the distances it has sampled so far and  *)
(* result[t] the value its call returned.  A step of a thread is one       *)
(* sample of the field; the steps of the threads interleave freely.        *)
(***************************************************************************)
\* number of threads
MaxThreads == 2

Threads == 1..MaxThreads

SharedTrees ==
    {Sphere_new(I(1)),
     Translate_new(Union_hard(Sphere_new(I(2)), Box_new(IV3(1, 2, 1))), IV3(1, 0, 0))}

ConcurrentPoints == {IV3(1, 0, 0), IV3(0, -1, 1)}

ConcurrentCalls ==
    {"SDF::dist", "CentralDifferenceEstimator::estimate_normal",
     "TetrahedralEstimator::estimate_normal"}

\* fn dist(&self, p: V) -> T: the borrow is shared, so the tree after the
\* call is the tree before it
SDF_dist_borrow_Scratch(self) == Sphere_new(I(2))

SDF_dist_borrow(self) == self

Call_central_points(at) ==
    <<at[1].plus, at[1].minus, at[2].plus, at[2].minus, at[3].plus, at[3].minus>>

Call_tetrahedral_points(terms) == <<terms[1].at, terms[2].at, terms[3].at, terms[4].at>>

Call_tetrahedral_weighted(terms, d) ==
    [i \in 1..Len(terms) |-> VScale(terms[i].weight, d[i])]
\* the points a call samples, in the order it samples them
Call_sample_points(call, p) ==
    CASE call.name = "SDF::dist" -> <<p>>
      [] call.name = "CentralDifferenceEstimator::estimate_normal" ->
             Call_central_points(
                 CentralDifferenceEstimator_samples(
                     CentralDifferenceEstimator_new(call.eps, VecType(3, "vek")), p))
      [] call.name = "TetrahedralEstimator::estimate_normal" ->
             Call_tetrahedral_points(
                 TetrahedralEstimator_terms(TetrahedralEstimator_new(call.eps), p))

\* the value a call returns once it has sampled the distances d
Call_value(call, p, d) ==
    CASE call.name = "SDF::dist" -> d[1]
      [] call.name = "CentralDifferenceEstimator::estimate_normal" ->
             Vec_normalized(CentralDifferenceEstimator_vector(
                 <<Sub(d[1], d[2]), Sub(d[3], d[4]), Sub(d[5], d[6])>>))
      [] call.name = "TetrahedralEstimator::estimate_normal" ->
             Vec_normalized(TetrahedralEstimator_sum(
                 Call_tetrahedral_weighted(
                     TetrahedralEstimator_terms(TetrahedralEstimator_new(call.eps), p), d)))

InitConcurrent ==
    /\ field \in SharedTrees
    /\ op = [t \in Threads |-> "idle"]
    /\ args = [t \in Threads |-> <<>>]
    /\ point = [t \in Threads |-> <<>>]
    /\ result = [t \in Threads |-> NaN]
    /\ samples = [t \in Threads |-> <<>>]

\* thread t enters dist(&self, p) or normal_at(&self, p); normal_at hands
\* a copy of the field to the estimator
ThreadCall(t) ==
    /\ op[t] = "idle"
    /\ \E name \in ConcurrentCalls, p \in ConcurrentPoints :
        /\ op' = [op EXCEPT ![t] = "sampling"]
        /\ args' = [args EXCEPT ![t] =
                      [name |-> name, eps |-> Half,
                       sdf |-> IF name = "SDF::dist" THEN <<>> ELSE field]]
        /\ point' = [point EXCEPT ![t] = p]
        /\ result' = [result EXCEPT ![t] = NaN]
        /\ samples' = [samples EXCEPT ![t] = <<>>]
        /\ field' = field

\* thread t samples the field once: through the shared borrow in dist,
\* in its own copy in an estimator
ThreadSample(t) ==
    /\ op[t] = "sampling"
    /\ Len(samples[t]) < Len(Call_sample_points(args[t], point[t]))
    /\ samples' = [samples EXCEPT ![t] =
                     Append(@, SDF_dist(IF args[t].name = "SDF::dist" THEN field
                                        ELSE args[t].sdf,
                                        Call_sample_points(args[t], point[t])[Len(@) + 1]))]
    /\ field' = SDF_dist_borrow(field)
    /\ UNCHANGED <<op, args, point, result>>

\* thread t has all its samples and returns
ThreadReturn(t) ==
    /\ op[t] = "sampling"
    /\ Len(samples[t]) = Len(Call_sample_points(args[t], point[t]))
    /\ op' = [op EXCEPT ![t] = "returned"]
    /\ result' = [result EXCEPT ![t] = Call_value(args[t], point[t], samples[t])]
    /\ UNCHANGED <<args, field, point, samples>>

\* the caller on thread t takes the value
ThreadIdle(t) ==
    /\ op[t] = "returned"
    /\ op' = [op EXCEPT ![t] = "idle"]
    /\ args' = [args EXCEPT ![t] = <<>>]
    /\ point' = [point EXCEPT ![t] = <<>>]
    /\ result' = [result EXCEPT ![t] = NaN]
    /\ samples' = [samples EXCEPT ![t] = <<>>]
    /\ field' = field

NextConcurrent ==
    \E t \in Threads :
        \/ ThreadCall(t)
        \/ ThreadSample(t)
        \/ ThreadReturn(t)
        \/ ThreadIdle(t)

SpecConcurrent == InitConcurrent /\ [][NextConcurrent]_vars

(***************************************************************************)
(* C1: for every radius r and every 3D point p, Sphere::new(r).dist(p) is  *)
(* magnitude(p) - r: adding r back gives a non-negative value m that is    *)
(* the square root of x^2 + y^2 + z^2 to within half a rounding step, and  *)
(* Sphere::new(1).dist(origin) is -1.                                      *)
(***************************************************************************)
NormSq3(p) == Add(Add(Mul(p[1], p[1]), Mul(p[2], p[2])), Mul(p[3], p[3]))

IsRoundedRootOf(m, x) ==
    LET twoM == Mul(I(2 * SqrtScale), m)
        fourX == Mul(I(4 * SqrtScale * SqrtScale), x)
    IN  /\ Le(Zero_zero, m)
        /\ (twoM = Zero_zero
              \/ Le(Mul(Sub(twoM, One_one), Sub(twoM, One_one)), fourX))
        /\ Lt(fourX, Mul(Add(twoM, One_one), Add(twoM, One_one)))

C1_SphereDist ==
    op = "Sphere::dist" =>
        /\ IsRoundedRootOf(Add(result, args.radius), NormSq3(point))
        /\ (args.radius = I(1) /\ point = Origin3 => result = I(-1))

C1_Witness ==
    /\ op = "Sphere::dist"
    /\ args.radius = I(1)
    /\ point = Origin3
    /\ result = I(-1)

\* reference minimum and maximum of two values, by comparison
MinOf(a, b) == IF Lt(b, a) THEN b ELSE a

MaxOf(a, b) == IF Lt(a, b) THEN b ELSE a

(***************************************************************************)
(* C2: for all fields A, B and all points p, the hard union A.union(B) is  *)
(* Union::hard(A, B) and its distance at p is the smaller of A.dist(p) and *)
(* B.dist(p), both taken at p itself.                                      *)
(***************************************************************************)
C2_HardUnion ==
    op = "SDF::union" =>
        /\ field.sdf1 = args.self /\ field.sdf2 = args.other
        /\ field.min_func.kind = "HardMin"
        /\ result = MinOf(SDF_dist(args.self, point), SDF_dist(args.other, point))

\* the two children differ at p and at -p, and the second one is the nearer
C2_Witness ==
    /\ op = "SDF::union"
    /\ Lt(SDF_dist(args.other, point), SDF_dist(args.self, point))
    /\ SDF_dist(args.other, point) # SDF_dist(args.other, VNeg(point))
    /\ result = SDF_dist(args.other, point)

(***************************************************************************)
(* C3: for all fields A, B and all points p, A.intersection(B) is          *)
(* Intersection::new(A, B) and its distance at p is the larger of          *)
(* A.dist(p) and B.dist(p).                                                *)
(***************************************************************************)
C3_Intersection ==
    op = "SDF::intersection" =>
        /\ field = Intersection_new(args.self, args.other)
        /\ result = MaxOf(SDF_dist(args.self, point), SDF_dist(args.other, point))

C3_Witness ==
    /\ op = "SDF::intersection"
    /\ Lt(SDF_dist(args.self, point), SDF_dist(args.other, point))
    /\ result = SDF_dist(args.other, point)

(***************************************************************************)
(* C4: a.subtract(b) removes b from a: its distance at p is the larger of  *)
(* -b.dist(p) and a.dist(p), for all fields a, b and points p.  The        *)
(* operation is not commutative: the witness is a state where              *)
(* a.subtract(b) and b.subtract(a) differ at p.                            *)
(***************************************************************************)
C4_Subtract ==
    op = "SDF::subtract" =>
        result = MaxOf(Neg(SDF_dist(args.other, point)), SDF_dist(args.self, point))

C4_Witness ==
    /\ op = "SDF::subtract"
    /\ args.self = Sphere_new(I(2))
    /\ args.other = Sphere_new(I(1))
    /\ point = Origin3
    /\ result = I(1)
    /\ SDF_dist(SDF_subtract(args.other, args.self), point) = I(2)

(***************************************************************************)
(* C5 as claimed: Subtraction::new(base, cut) takes the base first and the *)
(* cut second, its distance at p being the larger of -cut.dist(p) and      *)
(* base.dist(p).                                                           *)
(***************************************************************************)
C5_BaseFirst ==
    op = "Subtraction::new" =>
        result = MaxOf(Neg(SDF_dist(args.sdf2, point)), SDF_dist(args.sdf1, point))

(***************************************************************************)
(* C5 as amended: Subtraction::new(cut, base) takes the cut first and the  *)
(* base second: its distance at p is the larger of -cut.dist(p) and        *)
(* base.dist(p), the first argument's volume being carved out of the       *)
(* second.                                                                 *)
(***************************************************************************)
C5_CutFirst ==
    op = "Subtraction::new" =>
        result = MaxOf(Neg(SDF_dist(args.sdf1, point)), SDF_dist(args.sdf2, point))

\* the origin is outside a sphere of radius 2 with a sphere of radius 1 cut out
C5_Witness ==
    /\ op = "Subtraction::new"
    /\ args.sdf1 = Sphere_new(I(1))
    /\ args.sdf2 = Sphere_new(I(2))
    /\ point = Origin3
    /\ result = I(1)

(***************************************************************************)
(* C6: for a capsule with distinct endpoints a, b and radius r, the        *)
(* distance at p is the distance from p to the nearest point of the        *)
(* segment [a, b] minus r, the projection scalar                           *)
(* t = dot(p-a, b-a)/dot(b-a, b-a) being clamped to [0, 1]; at p = b and   *)
(* at the midpoint of the segment the distance is -r.                      *)
(***************************************************************************)
CapsuleReference(a, b, r, p) ==
    LET pa == VSub(p, a)
        ba == VSub(b, a)
        t == Div(Vec_dot(pa, ba), Vec_dot(ba, ba))
        h == IF Lt(t, I(0)) THEN I(0) ELSE IF Lt(I(1), t) THEN I(1) ELSE t
    IN  Sub(Vec_magnitude(VSub(pa, VScale(ba, h))), r)

C6_CapsuleSegment ==
    op = "Capsule::dist" /\ args.a # args.b =>
        /\ result = CapsuleReference(args.a, args.b, args.radius, point)
        /\ (point = args.b => result = Neg(args.radius))
        /\ (VScale(point, I(2)) = VAdd(args.a, args.b) => result = Neg(args.radius))

(***************************************************************************)
(* C7: TetrahedralEstimator::estimate_normal takes its four samples at the *)
(* four distinct points p + dir_i*eps, dir_i ranging over (1,-1,-1),       *)
(* (-1,-1,1), (-1,1,-1), (1,1,1), and weights the sample taken at          *)
(* p + dir_i*eps by dir_i; no offset serves two of the four terms.         *)
(***************************************************************************)
TetrahedronDirs == {IV3(1, -1, -1), IV3(-1, -1, 1), IV3(-1, 1, -1), IV3(1, 1, 1)}

C7_TetrahedralPairing ==
    op = "TetrahedralEstimator::estimate_normal" =>
        /\ Len(samples) = 4
        /\ {samples[i].weight : i \in 1..4} = TetrahedronDirs
        /\ \A i \in 1..4 :
               samples[i].at = VAdd(point, VScale(samples[i].weight, args.eps))
        /\ \A i, j \in 1..4 : i # j => samples[i].at # samples[j].at

(***************************************************************************)
(* C8: in Torus::new(radius, thickness), radius is the radius of the ring  *)
(* in the XZ plane and thickness the radius of the tube:                   *)
(* dist(p) = magnitude((magnitude((p.x, p.z)) - radius, p.y)) - thickness. *)
(* When radius > thickness > 0 the origin is outside, at distance          *)
(* radius - thickness, and (radius - thickness, 0, 0) is on the surface.   *)
(***************************************************************************)
C8_TorusRingAndTube ==
    op = "Torus::dist" =>
        /\ result =
               Sub(Vec_magnitude(<<Sub(Vec_magnitude(<<point[1], point[3]>>), args.radius),
                                   point[2]>>),
                   args.thickness)
        /\ (Lt(args.thickness, args.radius) /\ point = Origin3
               => result = Sub(args.radius, args.thickness))
        /\ (Lt(args.thickness, args.radius)
               /\ point = <<Sub(args.radius, args.thickness), I(0), I(0)>>
               => result = I(0))

(***************************************************************************)
(* C9: for all a, b and every k > 0, PolySmoothMin{k}.min(a, b) is at most *)
(* the larger of a and b; it is b*(1-h) + a*h - k*h*(1-h) with             *)
(* h = 0.5 + 0.5*(b-a)/k clamped to [0, 1], and a.union_smooth(b, k) uses  *)
(* it on the distances of a and b.                                         *)
(***************************************************************************)
PolyReference(k, a, b) ==
    LET t == Add(Q(1, 2), Div(Sub(b, a), Mul(I(2), k)))
        h == IF Lt(t, I(0)) THEN I(0) ELSE IF Lt(I(1), t) THEN I(1) ELSE t
    IN  Sub(Add(Mul(b, Sub(I(1), h)), Mul(a, h)), Mul(k, Mul(h, Sub(I(1), h))))

C9_PolySmoothMinBound ==
    /\ op = "PolySmoothMin::min" /\ Lt(I(0), args.k) =>
           /\ Le(result, MaxOf(args.a, args.b))
           /\ result = PolyReference(args.k, args.a, args.b)
    /\ op = "SDF::union_smooth" /\ Lt(I(0), args.k) =>
           LET da == SDF_dist(args.self, point)
               db == SDF_dist(args.other, point)
           IN  /\ field.min_func = PolySmoothMin_new(args.k)
               /\ Le(result, MaxOf(da, db))
               /\ result = PolyReference(args.k, da, db)

\* equal operands: the blend is deepest, k/4 below both
C9_Witness ==
    /\ op = "PolySmoothMin::min"
    /\ args.a = I(1) /\ args.b = I(1) /\ args.k = I(2)
    /\ result = Q(1, 2)

(***************************************************************************)
(* C10: for every field f, radius r and point p, Round::new(f, r).dist(p)  *)
(* is f.dist(p) - r, f being sampled at p itself.                          *)
(***************************************************************************)
C10_Round ==
    op = "Round::dist" =>
        /\ field.sdf = args.sdf
        /\ Add(result, args.radius) = SDF_dist(args.sdf, point)

C10_Witness ==
    /\ op = "Round::dist"
    /\ args.sdf.kind = "Capsule"
    /\ args.radius = Half
    /\ SDF_dist(args.sdf, point) # SDF_dist(args.sdf, VNeg(point))
    /\ result = Sub(SDF_dist(args.sdf, point), Half)

(***************************************************************************)
(* C11: for every field f, offset t and point p, Translate::new(f, t)      *)
(* has distance f.dist(p - t) at p; its distance at p + t is f.dist(p);    *)
(* and nested translations add: f.translate(t).translate(t2) and           *)
(* f.translate(t + t2) have the same distance at p.                        *)
(***************************************************************************)
C11_Translate ==
    op = "Translate::dist" =>
        /\ field = Translate_new(args.sdf, args.translation)
        /\ result = SDF_dist(args.sdf, VSub(point, args.translation))
        /\ SDF_dist(field, VAdd(point, args.translation)) = SDF_dist(args.sdf, point)
        /\ \A t2 \in Offsets :
               SDF_dist(SDF_translate(field, t2), point)
                   = SDF_dist(SDF_translate(args.sdf, VAdd(args.translation, t2)), point)

\* a sphere moved by (1,0,0): the point (1,0,0) is where the origin was
C11_Witness ==
    /\ op = "Translate::dist"
    /\ args.sdf = Sphere_new(I(1))
    /\ args.translation = IV3(1, 0, 0)
    /\ point = IV3(1, 0, 0)
    /\ result = SDF_dist(args.sdf, Origin3)
    /\ result # SDF_dist(args.sdf, point)

(***************************************************************************)
(* C12: rotating a field by a forward rotation R samples the inner field   *)
(* at the point rotated by the inverse of R: Rotate::new(f, R).dist(p) is  *)
(* f.dist(q) for the point q that R takes to p, so                         *)
(* Rotate::new(f, R).dist(R applied to p) is f.dist(p); this holds for the *)
(* vek matrices and quaternions, the ultraviolet rotors and the nalgebra   *)
(* rotations.                                                              *)
(***************************************************************************)
C12_RotateInverse ==
    op = "Rotate::dist" =>
        LET q == Rotation_rotate_vec(args.rotation, point)
        IN  /\ Rotation_native(args.rotation, q) = point
            /\ result = SDF_dist(args.sdf, q)
            /\ SDF_dist(field, Rotation_native(args.rotation, point))
                   = SDF_dist(args.sdf, point)

\* a rotation that is not its own inverse, on a field that tells the
\* rotated point from the point rotated the other way
C12_Witness ==
    /\ op = "Rotate::dist"
    /\ args.rotation.kind = "vek::Quaternion"
    /\ args.rotation.q = <<Half, Half, Half, Half>>
    /\ point = IV3(1, 0, 0)
    /\ result = SDF_dist(args.sdf, IV3(0, 0, 1))
    /\ result # SDF_dist(args.sdf, Rotation_native(args.rotation, point))

(***************************************************************************)
(* C13: for every field f, non-zero uniform factor s and point p,          *)
(* Scale::new(f, s).dist(p) is f.dist(p / s) * s; hence its distance at    *)
(* s*p is s * f.dist(p), and scaling by 1 changes nothing.                 *)
(***************************************************************************)
C13_Scale ==
    op = "Scale::dist" /\ args.scaling # I(0) =>
        LET inv == Q(args.scaling[2], args.scaling[1])
            q == <<Mul(point[1], inv), Mul(point[2], inv), Mul(point[3], inv)>>
        IN  /\ VScale(q, args.scaling) = point
            /\ result = Mul(args.scaling, SDF_dist(args.sdf, q))
            /\ SDF_dist(field, VScale(point, args.scaling))
                   = Mul(args.scaling, SDF_dist(args.sdf, point))
            /\ (args.scaling = I(1) => result = SDF_dist(args.sdf, point))

\* a unit sphere scaled by 2 is a sphere of radius 2
C13_Witness ==
    /\ op = "Scale::dist"
    /\ args.sdf = Sphere_new(I(1))
    /\ args.scaling = I(2)
    /\ point = IV3(1, 0, 0)
    /\ result = I(-1)

AxisIndex(axis) == CASE axis = "X" -> 1 [] axis = "Y" -> 2 [] axis = "Z" -> 3

(***************************************************************************)
(* C14: for every field f, axis present in the vector's dimension,         *)
(* amount >= 0 and point p, Elongate::new(f, axis, amount).dist(p) is      *)
(* f.dist(q), where q is p with only the chosen component changed: moved   *)
(* toward zero by amount, and set to 0 when it is within amount of zero;   *)
(* amount = 0 leaves f unchanged.                                          *)
(***************************************************************************)
C14_Elongate ==
    op = "Elongate::dist" /\ AxisIndex(args.axis) <= args.V.dim
            /\ Le(I(0), args.elongation) =>
        LET i == AxisIndex(args.axis)
            a == args.elongation
            moved == IF Lt(a, point[i]) THEN Sub(point[i], a)
                     ELSE IF Lt(point[i], Neg(a)) THEN Add(point[i], a)
                     ELSE I(0)
            q == [k \in 1..args.V.dim |-> IF k = i THEN moved ELSE point[k]]
        IN  /\ samples = <<q>>
            /\ result = SDF_dist(args.sdf, q)
            /\ (a = I(0) => result = SDF_dist(args.sdf, point))

\* a point outside the elongated core is sampled nearer to the origin
C14_Witness ==
    /\ op = "Elongate::dist"
    /\ args.V = VecType(3, "glam")
    /\ args.axis = "Y"
    /\ args.elongation = Half
    /\ point = IV3(1, -1, 0)
    /\ samples = << <<I(1), Neg(Half), I(0)>> >>
    /\ result # SDF_dist(args.sdf, point)

MaxComponent(q) ==
    IF Len(q) = 2 THEN MaxOf(q[1], q[2]) ELSE MaxOf(MaxOf(q[1], q[2]), q[3])

\* the vector with every negative component replaced by 0
PositivePart(q) == [k \in 1..Len(q) |-> IF Lt(q[k], I(0)) THEN I(0) ELSE q[k]]

(***************************************************************************)
(* C16: ElongateMulti is symmetric about the origin, in 2D and in 3D: its  *)
(* distance at p is f.dist(max(q, 0)) + min(max-component(q), 0) with      *)
(* q = abs(p) - amounts, and it is the same at p and at -p, for every      *)
(* field f, amounts vector and point p.                                    *)
(***************************************************************************)
C16_ElongateMultiSymmetric ==
    op = "ElongateMulti::dist" =>
        LET q == VSub([k \in 1..args.V.dim |-> ScalarAbs(point[k])], args.elongation)
        IN  /\ result = Add(SDF_dist(args.sdf, PositivePart(q)), MinOf(MaxComponent(q), I(0)))
            /\ result = SDF_dist(field, VNeg(point))

\* the inner field is not symmetric, the elongated one is
C16_Witness ==
    /\ op = "ElongateMulti::dist"
    /\ args.V.dim = 3
    /\ point = IV3(1, -1, 1)
    /\ args.elongation = <<Half, I(1), I(2)>>
    /\ SDF_dist(args.sdf, point) # SDF_dist(args.sdf, VNeg(point))
    /\ result = SDF_dist(field, VNeg(point))

\* the sum of the squares of the components of a vector
NormSq(q) ==
    IF Len(q) = 2 THEN Add(Mul(q[1], q[1]), Mul(q[2], q[2])) ELSE NormSq3(q)

\* every component of q is <= 0
AllNonPositive(q) == \A k \in 1..Len(q) : Le(q[k], I(0))

(***************************************************************************)
(* C17: for every box with half-extents d and every 3D point p, the        *)
(* distance is magnitude(max(q, 0)) + min(max(q.x, q.y, q.z), 0) with      *)
(* q = abs(p) - d: inside or on the box (every component of q <= 0) it is  *)
(* the largest component of q, which is <= 0 and is -min(d.x, d.y, d.z) at *)
(* the origin; outside it is the Euclidean length of the positive part of  *)
(* q.                                                                      *)
(***************************************************************************)
C17_Box ==
    op = "Box::dist" =>
        LET d == args.dims
            q == [k \in 1..3 |-> Sub(ScalarAbs(point[k]), d[k])]
        IN  /\ result = Add(Sqrt(NormSq(PositivePart(q))), MinOf(MaxComponent(q), I(0)))
            /\ AllNonPositive(q) =>
                 /\ result = MaxComponent(q)
                 /\ Le(result, I(0))
                 /\ point = Origin3 => result = Neg(MinOf(MinOf(d[1], d[2]), d[3]))
            /\ ~AllNonPositive(q) =>
                 /\ IsRoundedRootOf(result, NormSq(PositivePart(q)))
                 /\ Lt(I(0), result)

\* a point strictly inside a box with three different half-extents
C17_Witness ==
    /\ op = "Box::dist"
    /\ args.dims = <<Half, I(1), I(2)>>
    /\ point = Origin3
    /\ result = Neg(Half)

(***************************************************************************)
(* C18: for every capped cylinder (radius r, half-height h, axis) and 3D   *)
(* point p, the distance is min(max(d.x, d.y), 0) + magnitude(max(d, 0))   *)
(* with d = (|radial distance of p from the axis| - r, |coordinate of p    *)
(* along the axis| - h); the coordinate along the axis is p.x for Axis::X, *)
(* p.y for Axis::Y and p.z for Axis::Z, and the other two coordinates form *)
(* the radial distance.                                                    *)
(***************************************************************************)
C18_CappedCylinder ==
    op = "CappedCylinder::dist" =>
        LET i == AxisIndex(args.axis)
            others == {k \in 1..3 : k # i}
            j == CHOOSE k \in others : \A m \in others : k <= m
            l == CHOOSE k \in others : k # j
            radial == Sqrt(Add(Mul(point[j], point[j]), Mul(point[l], point[l])))
            d == <<Sub(ScalarAbs(radial), args.radius), Sub(ScalarAbs(point[i]), args.height)>>
        IN  result = Add(MinOf(MaxOf(d[1], d[2]), I(0)), Sqrt(NormSq(PositivePart(d))))

\* a point whose distance differs between the three axes
C18_Witness ==
    /\ op = "CappedCylinder::dist"
    /\ args.axis = "X"
    /\ args.radius = I(1)
    /\ args.height = I(2)
    /\ point = IV3(1, 0, 0)
    /\ result = I(-1)

\* the unit vector of axis i scaled by eps, in dimension dim
AxisStep(dim, i, eps) == [k \in 1..dim |-> IF k = i THEN eps ELSE I(0)]

\* the sum of two vectors, the difference of two vectors
PointPlus(p, s) == [k \in 1..Len(p) |-> Add(p[k], s[k])]

PointMinus(p, s) == [k \in 1..Len(p) |-> Sub(p[k], s[k])]

(***************************************************************************)
(* C19: the central-difference estimator samples the field at exactly      *)
(* p + eps*e_i and p - eps*e_i for each coordinate axis e_i (6 samples in  *)
(* 3D, 4 in 2D); component i of the vector it normalises is                *)
(* f.dist(p + eps*e_i) - f.dist(p - eps*e_i); and SDF::normals(eps) uses   *)
(* this estimator with the eps given.                                      *)
(***************************************************************************)
C19_CentralDifference ==
    op = "CentralDifferenceEstimator::estimate_normal" =>
        LET dim == args.V.dim
            plus(i) == PointPlus(point, AxisStep(dim, i, args.eps))
            minus(i) == PointMinus(point, AxisStep(dim, i, args.eps))
            v == [i \in 1..dim |-> Sub(SDF_dist(args.sdf, plus(i)), SDF_dist(args.sdf, minus(i)))]
            m == Sqrt(NormSq(v))
        IN  /\ field.estimator.kind = "CentralDifferenceEstimator"
            /\ field.estimator.eps = args.eps
            /\ field.sdf = args.sdf
            /\ Len(samples) = dim
            /\ \A i \in 1..dim :
                 /\ samples[i].plus = plus(i)
                 /\ samples[i].minus = minus(i)
            /\ Cardinality({samples[i].plus : i \in 1..dim}
                             \cup {samples[i].minus : i \in 1..dim}) = 2 * dim
            /\ result = [i \in 1..dim |-> Div(v[i], m)]

\* three different differences, from six different samples
C19_Witness ==
    /\ op = "CentralDifferenceEstimator::estimate_normal"
    /\ args.V.dim = 3
    /\ Len(samples) = 3
    /\ \A k \in 1..3 : IsFinite(result[k])
    /\ result[1] # result[2]
    /\ result[2] # result[3]
    /\ result[1] # result[3]

\* the 2D estimator: four samples, two components
C19_Witness2D ==
    /\ op = "CentralDifferenceEstimator::estimate_normal"
    /\ args.V.dim = 2
    /\ Len(samples) = 2
    /\ \A k \in 1..2 : IsFinite(result[k])
    /\ result[1] # result[2]

\* the calls that estimate a normal
NormalCalls ==
    {"CentralDifferenceEstimator::estimate_normal", "TetrahedralEstimator::estimate_normal"}

\* the vector the estimator of the call in progress builds before it
\* normalises: the differences, or the weighted sum of the four samples
BuiltVector ==
    IF op = "CentralDifferenceEstimator::estimate_normal"
    THEN [i \in 1..Len(samples) |->
            Sub(SDF_dist(args.sdf, samples[i].plus), SDF_dist(args.sdf, samples[i].minus))]
    ELSE LET d(i) == SDF_dist(args.sdf, samples[i].at)
         IN  [k \in 1..3 |->
                Add(Add(Add(Mul(samples[1].weight[k], d(1)), Mul(samples[2].weight[k], d(2))),
                        Mul(samples[3].weight[k], d(3))),
                    Mul(samples[4].weight[k], d(4)))]

\* u is v brought to length 1: its components are finite and its length is
\* |v| / m, where m > 0 is |v| as the square root rounds it
UnitLengthOf(u, v) ==
    LET m == Sqrt(NormSq(v))
    IN  /\ \A k \in 1..Len(u) : IsFinite(u[k])
        /\ Lt(I(0), m)
        /\ IsRoundedRootOf(m, NormSq(v))
        /\ Mul(NormSq(u), Mul(m, m)) = NormSq(v)
        /\ Mul(m, m) = NormSq(v) => NormSq(u) = I(1)

(***************************************************************************)
(* C20 as stated: for every field, eps and point p, normal_at(p) with the  *)
(* central-difference or the tetrahedral estimator returns a vector of     *)
(* magnitude 1.                                                            *)
(***************************************************************************)
C20_UnitLengthAlways ==
    op \in NormalCalls => UnitLengthOf(result, BuiltVector)

(***************************************************************************)
(* C20 amended: normal_at(p) returns a vector of magnitude 1 whenever the  *)
(* vector the estimator built before normalising has a non-zero, finite    *)
(* magnitude; when that vector is zero every component of the result is    *)
(* NaN.                                                                    *)
(***************************************************************************)
C20_UnitLengthWhenNonZero ==
    op \in NormalCalls =>
        LET m == Sqrt(NormSq(BuiltVector))
        IN  /\ (IsFinite(m) /\ m # I(0)) => UnitLengthOf(result, BuiltVector)
            /\ NormSq(BuiltVector) = I(0) => \A k \in 1..Len(result) : IsNaN(result[k])

\* a normal of length exactly 1 from a built vector of another length
C20_Witness ==
    /\ op = "CentralDifferenceEstimator::estimate_normal"
    /\ args.sdf = Sphere_new(I(1))
    /\ args.eps = I(1)
    /\ point = IV3(0, -1, 0)
    /\ NormSq(BuiltVector) = I(4)
    /\ result = IV3(0, -1, 0)

\* the value thread t's call returns when it runs alone on the tree
SoloValue(t) ==
    CASE args[t].name = "SDF::dist" -> SDF_dist(field, point[t])
      [] args[t].name = "CentralDifferenceEstimator::estimate_normal" ->
             EstimateNormal_normal_at(SDF_normals(field, args[t].eps, VecType(3, "vek")),
                                      point[t])
      [] args[t].name = "TetrahedralEstimator::estimate_normal" ->
             EstimateNormal_normal_at(SDF_normals_fast(field, args[t].eps), point[t])

C22_ClampMaxThenMin ==
    op = "Elongate::dist" /\ AxisIndex(args.axis) <= args.V.dim /\ args.V.lib = "glam" =>
        LET h == [k \in 1..args.V.dim |->
                    IF k = AxisIndex(args.axis) THEN args.elongation ELSE Zero_zero]
            q == [k \in 1..args.V.dim |->
                    Sub(point[k], Clamp_clamp(point[k], Neg(h[k]), h[k]))]
        IN  /\ samples = <<q>>
            /\ \A lib \in VecLibs :
                 result = SDF_dist(SDF_elongate(args.sdf, args.axis, args.elongation,
                                                VecType(args.V.dim, lib)), point)

NewOps == {"Union::smooth", "Capsule::new", "Scale::new", "Elongate::new"}

C23_WitnessCapsule == op = "Capsule::new" /\ args.a = args.b /\ args.a = IV3(1, 0, 0)

C23_WitnessScale == op = "Scale::new" /\ args.scaling = I(0)

C23_WitnessElongate ==
    op = "Elongate::new" /\ args.V.dim = 2 /\ args.axis = "Z" /\ field.axis = "Z"

\* a and b are at least k apart
AtLeastApart(a, b, k) == Le(k, Sub(a, b)) \/ Le(k, Sub(b, a))

\* m is the smooth minimum of a and b that the claim describes for k > 0
SmoothMinOf(m, k, a, b) ==
    /\ Le(Sub(MinOf(a, b), Div(k, I(4))), m)
    /\ Le(m, MinOf(a, b))
    /\ AtLeastApart(a, b, k) => m = MinOf(a, b)
    /\ a = b => m = Sub(a, Div(k, I(4)))

(***************************************************************************)
(* C24: for all a, b and k > 0, PolySmoothMin{k}.min(a, b) lies in         *)
(* [min(a, b) - k/4, min(a, b)], is the hard minimum when |a - b| >= k,    *)
(* is a - k/4 when a == b, and is symmetric in a and b; so a smooth union  *)
(* is negative wherever one of its fields is negative, and it differs from *)
(* the hard union by at most k/4.                                          *)
(***************************************************************************)
C24_SmoothMinInterval ==
    /\ op = "PolySmoothMin::min" /\ Lt(I(0), args.k) =>
           /\ SmoothMinOf(result, args.k, args.a, args.b)
           /\ result = MinFunction_min(field, args.b, args.a)
    /\ op = "SDF::union_smooth" /\ Lt(I(0), args.k) =>
           LET da == SDF_dist(args.self, point)
               db == SDF_dist(args.other, point)
           IN  /\ SmoothMinOf(result, args.k, da, db)
               /\ Lt(da, I(0)) \/ Lt(db, I(0)) => Lt(result, I(0))
               /\ Le(Sub(SDF_dist(SDF_union(args.self, args.other), point), result),
                     Div(args.k, I(4)))

\* strictly inside the interval: a and b are closer than k and differ
C24_Witness ==
    /\ op = "PolySmoothMin::min"
    /\ args.a = I(1) /\ args.b = I(0) /\ args.k = I(2)
    /\ result = Q(-1, 8)

\* a smooth union strictly below the hard union at a point inside a field
C24_WitnessUnion ==
    /\ op = "SDF::union_smooth"
    /\ Lt(SDF_dist(args.self, point), I(0))
    /\ Lt(result, SDF_dist(SDF_union(args.self, args.other), point))

(***************************************************************************)
(* C25: multi-axis elongation of a sphere is a rounded box: for every      *)
(* radius r, amounts e and 3D point p,                                     *)
(* ElongateMulti::new(Sphere::new(r), e).dist(p) equals                    *)
(* Round::new(Box::new(e), r).dist(p).                                     *)
(***************************************************************************)
C25_ElongatedSphereIsRoundedBox ==
    op = "ElongateMulti::dist" /\ args.V.dim = 3 /\ args.sdf.kind = "Sphere" =>
        result = SDF_dist(Round_new(Box_new(args.elongation), args.sdf.radius), point)

\* a point off the faces of the box, where the corner is rounded, and one
\* inside the box, where the interior term is not zero
C25_Witness ==
    /\ op = "ElongateMulti::dist"
    /\ args.V.dim = 3
    /\ args.sdf = Sphere_new(Half)
    /\ args.elongation = <<Half, I(1), I(2)>>
    /\ point = IV3(1, -1, 0)
    /\ result = I(0)

C25_WitnessInside ==
    /\ op = "ElongateMulti::dist"
    /\ args.sdf = Sphere_new(I(2))
    /\ args.elongation = IV3(1, 1, 1)
    /\ point = IV3(0, 0, 0)
    /\ result = I(-3)

(***************************************************************************)
(* C26: on a field affine in the point, f(p) = dot(n, p) + c with n # 0,   *)
(* the two 3D estimators agree for every p and eps > 0: the vector         *)
(* TetrahedralEstimator builds before normalising is 4*eps*n, the one      *)
(* CentralDifferenceEstimator builds is 2*eps*n, and both return           *)
(* normalize(n).                                                           *)
(***************************************************************************)
C26_AffineEstimatorsAgree ==
    op \in NormalCalls /\ args.sdf.kind = "Affine" /\ Len(point) = 3
            /\ Lt(I(0), args.eps) =>
        LET factor == IF op = "TetrahedralEstimator::estimate_normal" THEN I(4) ELSE I(2)
        IN  /\ BuiltVector = VScale(args.sdf.n, Mul(factor, args.eps))
            /\ result = Vec_normalized(args.sdf.n)

\* the central-difference half of the statement, which the code satisfies
C26_CentralDifferenceOnAffine ==
    op = "CentralDifferenceEstimator::estimate_normal" /\ args.sdf.kind = "Affine"
            /\ Len(point) = 3 =>
        /\ BuiltVector = VScale(args.sdf.n, Mul(I(2), args.eps))
        /\ result = Vec_normalized(args.sdf.n)

\* the amounts vector that is a on the axis and 0 on the others
AxisAmounts(axis, a, V) ==
    [k \in 1..V.dim |-> IF k = AxisIndex(axis) THEN a ELSE Zero_zero]

\* f is mirror-symmetric across each coordinate plane, at the points of the
\* model and at q
MirrorSymmetric(f, V, q) ==
    \A p \in PointsOf(V) \cup {q} : SDF_dist(f, p) = SDF_dist(f, Vec_abs(p))

\* the point Elongate moves p to, for any axis
ElongatedPoint(f, axis, a, V, p) ==
    IF AxisIndex(axis) <= V.dim THEN Elongate_samples(Elongate_new(f, axis, a, V), p)[1]
    ELSE p

(***************************************************************************)
(* C27 as stated: for every mirror-symmetric field f, amount a >= 0,       *)
(* every axis and every point p, ElongateMulti with amounts a on that axis *)
(* and 0 on the others returns the same distance as                        *)
(* Elongate::new(f, axis, a).                                              *)
(***************************************************************************)
C27_MultiGeneralisesEveryAxis ==
    op = "Elongate::dist" /\ Le(I(0), args.elongation)
            /\ MirrorSymmetric(args.sdf, args.V,
                               ElongatedPoint(args.sdf, args.axis, args.elongation,
                                              args.V, point)) =>
        result = SDF_dist(ElongateMulti_new(args.sdf,
                                            AxisAmounts(args.axis, args.elongation, args.V),
                                            args.V), point)

(***************************************************************************)
(* C27: for every mirror-symmetric field f, amount a >= 0, every axis      *)
(* present in the vector's dimension and every point p, ElongateMulti with *)
(* amounts a on that axis and 0 on the others returns the same distance as *)
(* Elongate::new(f, axis, a); with all amounts 0 ElongateMulti returns     *)
(* f.dist(abs(p)), which for a field without the symmetry is not           *)
(* f.dist(p).                                                              *)
(***************************************************************************)
C27_MultiGeneralisesElongate ==
    /\ op = "Elongate::dist" /\ Le(I(0), args.elongation)
            /\ AxisIndex(args.axis) <= args.V.dim
            /\ MirrorSymmetric(args.sdf, args.V, samples[1]) =>
          result = SDF_dist(ElongateMulti_new(args.sdf,
                                              AxisAmounts(args.axis, args.elongation,
                                                          args.V),
                                              args.V), point)
    /\ op = "ElongateMulti::dist"
            /\ (\A k \in 1..args.V.dim : args.elongation[k] = Zero_zero) =>
          result = SDF_dist(args.sdf, Vec_abs(point))

\* a symmetric field elongated along one axis, at a point the elongation moves
C27_Witness ==
    /\ op = "Elongate::dist"
    /\ args.V.dim = 3
    /\ args.sdf = Box_new(<<Half, I(1), I(2)>>)
    /\ args.axis = "X"
    /\ args.elongation = Half
    /\ point = IV3(-1, 1, 0)
    /\ MirrorSymmetric(args.sdf, args.V, samples[1])
    /\ result # SDF_dist(args.sdf, point)

C27_Witness2D ==
    /\ op = "Elongate::dist"
    /\ args.V.dim = 2
    /\ args.axis = "Y"
    /\ args.elongation = Half
    /\ point = IV2(1, -1)
    /\ MirrorSymmetric(args.sdf, args.V, samples[1])
    /\ result # SDF_dist(args.sdf, point)

\* all amounts 0 over a field without the symmetry
C27_WitnessZero ==
    /\ op = "ElongateMulti::dist"
    /\ \A k \in 1..args.V.dim : args.elongation[k] = Zero_zero
    /\ result # SDF_dist(args.sdf, point)

(***************************************************************************)
(* C28: every Default implementation of CentralDifferenceEstimator and of  *)
(* TetrahedralEstimator, for f32, f64 and the batched f32x4, constructs    *)
(* the estimator with the same non-zero eps = 0.001; so with a default     *)
(* estimator the paired samples p + eps and p - eps are taken at distinct  *)
(* points, and a batched default estimator gives in each lane the result   *)
(* of the scalar default estimator.                                        *)
(***************************************************************************)
C28_DefaultEps ==
    op = "EstimateNormal::new_default" =>
        /\ field.estimator.eps = Q(1, 1000)
        /\ args.E = "CentralDifferenceEstimator" =>
               \A i \in 1..Len(samples) : samples[i].plus # samples[i].minus
        /\ args.T = "f32x4" =>
               result = EstimateNormal_normal_at(
                            EstimateNormal_new_default(args.sdf, args.E, "f32", args.V),
                            point)

\* what the scalar Default implementations and the TetrahedralEstimator ones do
C28_DefaultEpsScalarOrTetrahedral ==
    op = "EstimateNormal::new_default"
            /\ (args.T # "f32x4" \/ args.E = "TetrahedralEstimator") =>
        /\ field.estimator.eps = Q(1, 1000)
        /\ \A k \in 1..Len(result) : IsFinite(result[k])
====
